---- MODULE Spec2Model ----
(***************************************************************************)
(* A model of cronbake: the cron expression parser (src/lib/parser.ts),    *)
(* the job state machine (src/lib/cron.ts) and the callback resolver       *)
(* (src/lib/utils.ts).                                                     *)
(*                                                                         *)
(* The host's Date is modelled with the Gregorian calendar, in local        *)
(* wall-clock time without daylight-saving transitions, from 2024-01-01    *)
(* 00:00:00.000 (a Monday) on.                                             *)
(* Strings are TLA+ strings, taken apart with Len and SubSeq the way the   *)
(* source takes them apart with split, includes and parseInt.              *)
(***************************************************************************)
EXTENDS Integers, Sequences, FiniteSets, TLC

(***************************************************************************)
(* JavaScript values the source relies on.                                 *)
(***************************************************************************)

\* The number NaN: what parseInt returns for a string with no leading digits.
\* It is kept apart from every integer the model computes with.
NaN == -999999999

\* The value undefined: a destructured array position that does not exist.
\* No input of the model contains this string.
Undefined == "<undefined>"

\* The value null of a field that holds no Timer (and, in NullDate, no Date).
Null == -1

isNaN(n) == n = NaN

\* The element of a one-element set.  { e(v) : v \in {x} } is e with v bound to
\* the value of x, so The of it is "const v = x; return e(v)".
The(S) == CHOOSE v \in S : TRUE

\* a + b on numbers: NaN is absorbing.
Plus(a, b) == IF isNaN(a) \/ isNaN(b) THEN NaN ELSE a + b

\* a <= b on numbers: false as soon as one side is NaN.
Leq(a, b) == ~isNaN(a) /\ ~isNaN(b) /\ a <= b

\* s.includes(sub), for a non-empty sub.
includes(s, sub) ==
  \E i \in 1..(Len(s) - Len(sub) + 1) : SubSeq(s, i, i + Len(sub) - 1) = sub

\* s.split(sep) for a one-character separator: the pieces between separators,
\* empty pieces included ("".split(sep) is [""]).
RECURSIVE SplitAcc(_, _, _, _)
SplitAcc(s, sep, i, cur) ==
  IF i > Len(s) THEN <<cur>>
  ELSE IF SubSeq(s, i, i) = sep
       THEN <<cur>> \o SplitAcc(s, sep, i + 1, "")
       ELSE SplitAcc(s, sep, i + 1, cur \o SubSeq(s, i, i))

split(s, sep) == SplitAcc(s, sep, 1, "")

\* const [a, b, c] = array: the i-th element, undefined when there is none.
At(arr, i) == IF i <= Len(arr) THEN arr[i] ELSE Undefined

\* `${v}` in a template literal: undefined prints as "undefined".
Str(v) == IF v = Undefined THEN "undefined" ELSE v

Digits == "0123456789"

isDigit(c) == \E d \in 1..10 : SubSeq(Digits, d, d) = c

DigitVal(c) == (CHOOSE d \in 1..10 : SubSeq(Digits, d, d) = c) - 1

\* The value of the longest run of decimal digits of s starting at i, given the
\* value acc of the digits read so far.
RECURSIVE DigitRun(_, _, _)
DigitRun(s, i, acc) ==
  IF i <= Len(s) /\ isDigit(SubSeq(s, i, i))
  THEN DigitRun(s, i + 1, acc * 10 + DigitVal(SubSeq(s, i, i)))
  ELSE acc

\* The first position of s at or after i that holds no blank.
RECURSIVE SkipBlanks(_, _)
SkipBlanks(s, i) ==
  IF i <= Len(s) /\ SubSeq(s, i, i) = " " THEN SkipBlanks(s, i + 1) ELSE i

\* parseInt(s): leading blanks, an optional sign, then the longest run of decimal
\* digits; NaN when there is no digit there.  (Hexadecimal "0x" prefixes are not
\* modelled: no input of the model holds an "x" after a "0".)
hasSign(s, i) == i <= Len(s) /\ SubSeq(s, i, i) \in {"-", "+"}

\* The number whose digits start at position j of s, negated when neg.
digitsFrom(s, j, neg) ==
  IF ~(j <= Len(s) /\ isDigit(SubSeq(s, j, j))) THEN NaN
  ELSE IF neg THEN 0 - DigitRun(s, j, 0) ELSE DigitRun(s, j, 0)

parseIntAt(s, i) ==
  IF hasSign(s, i) THEN digitsFrom(s, i + 1, SubSeq(s, i, i) = "-")
  ELSE digitsFrom(s, i, FALSE)

parseInt(str) == The({ parseIntAt(str, i) : i \in {SkipBlanks(str, 1)} })

(***************************************************************************)
(* CronParser: alias resolution (src/lib/parser.ts).                       *)
(***************************************************************************)

aliasNames ==
  {"@every_second", "@every_minute", "@yearly", "@annually",
   "@monthly", "@weekly", "@daily", "@hourly"}

aliases(str) ==
  CASE str = "@every_second" -> "* * * * * *"
    [] str = "@every_minute" -> "0 * * * * *"
    [] str = "@yearly" -> "0 0 1 1 * *"
    [] str = "@annually" -> "0 0 1 1 * *"
    [] str = "@monthly" -> "0 0 1 * * *"
    [] str = "@weekly" -> "0 0 * * 0 *"
    [] str = "@daily" -> "0 0 * * * *"
    [] str = "@hourly" -> "0 * * * * *"

\* A parseEveryStr that takes every unit for an unknown one.
everyStr_default(value, unit) == "* * * * * *"

everyStr(value, unit) ==
  CASE unit = "seconds" -> "*/" \o value \o " * * * * *"
    [] unit = "minutes" -> "0 */" \o value \o " * * * *"
    [] unit = "hours" -> "0 0 */" \o value \o " * * *"
    [] unit = "dayOfMonth" -> "0 0 0 */" \o value \o " * *"
    [] unit = "months" -> "0 0 0 0 */" \o value \o " *"
    [] unit = "dayOfWeek" -> "0 0 0 0 0 */" \o value
    [] OTHER -> "* * * * * *"

parseEveryStr(str) ==
  The({ everyStr(Str(At(parts, 2)), At(parts, 3)) : parts \in {split(str, "_")} })

\* A parseAtHourStr that writes the hour and the minute in each other's field.
parseAtHourStr_swapped(str) ==
  The({ The({ "0 " \o Str(At(hm, 1)) \o " " \o Str(At(hm, 2)) \o " * * *" :
              hm \in {split(At(parts, 2), ":")} }) :
        parts \in {split(str, "_")} })

parseAtHourStr(str) ==
  The({ The({ "0 " \o Str(At(hm, 2)) \o " " \o Str(At(hm, 1)) \o " * * *" :
              hm \in {split(At(parts, 2), ":")} }) :
        parts \in {split(str, "_")} })

days(day) ==
  CASE day = "sunday" -> "1"
    [] day = "monday" -> "2"
    [] day = "tuesday" -> "3"
    [] day = "wednesday" -> "4"
    [] day = "thursday" -> "5"
    [] day = "friday" -> "6"
    [] day = "saturday" -> "7"
    [] OTHER -> "undefined"

parseOnDayStr(str) ==
  The({ "0 0 0 * * " \o days(At(parts, 2)) : parts \in {split(str, "_")} })

parseBetweenStr(str) ==
  The({ "0 0 " \o Str(At(parts, 2)) \o "-" \o Str(At(parts, 3)) \o " * * *" :
        parts \in {split(str, "_")} })

parseStr(str) ==
  IF str \in aliasNames THEN aliases(str)
  ELSE IF includes(str, "@every_") THEN parseEveryStr(str)
  ELSE IF includes(str, "@at_") THEN parseAtHourStr(str)
  ELSE IF includes(str, "@on_") THEN parseOnDayStr(str)
  ELSE IF includes(str, "@between_") THEN parseBetweenStr(str)
  ELSE str

(***************************************************************************)
(* CronParser: field parsing (src/lib/parser.ts).  A call either returns,  *)
(* throws (err = "TypeError") or never leaves one of its for loops         *)
(* (err = "loop").                                                         *)
(***************************************************************************)

\* for (let i = start; i <= end; i += step) result.push(i), when it ends.
RECURSIVE forLoop(_, _, _)
forLoop(i, end, step) ==
  IF Leq(i, end)
  THEN <<i>> \o forLoop(Plus(i, step), end, step)
  ELSE <<>>

\* The same loop never ends when it is entered with a step that does not
\* move i upwards: i <= end stays true.
loopsForever(i, end, step) == Leq(i, end) /\ ~isNaN(step) /\ step <= 0

\* A getStep that ignores the /S of the field.
getStep_one(cronTime) == 1

getStep(cronTime) ==
  The({ IF isNaN(parsedStep) THEN 1 ELSE parsedStep :
        parsedStep \in { The({ parseInt(At(parts, 2)) :
                                parts \in {split(cronTime, "/")} }) } })

Returned(vals) == [err |-> "none", vals |-> vals]

Threw(e) == [err |-> e, vals |-> <<>>]

\* The whole for loop: its array, or "loop" when it never ends.
runLoop(start, end, step) ==
  IF loopsForever(start, end, step) THEN Threw("loop")
  ELSE Returned(forLoop(start, end, step))

parseRange(cronTime) ==
  The({ The({ runLoop(start, end, step) :
              start \in {parseInt(At(parts, 1))},
              end \in {parseInt(At(parts, 2))},
              step \in {getStep(cronTime)} }) :
        parts \in {split(cronTime, "-")} })

parseStep(cronTime, min, max) ==
  The({ The({ runLoop(start, max, step) :
              start \in {IF At(parts, 1) = "*" THEN min ELSE parseInt(At(parts, 1))},
              step \in {parseInt(At(parts, 2))} }) :
        parts \in {split(cronTime, "/")} })

parseList(cronTime) ==
  The({ Returned([i \in 1..Len(times) |-> parseInt(times[i])]) :
        times \in {split(cronTime, ",")} })

parseCronTime(cronTime, min, max) ==
  IF cronTime = "*" THEN Returned([i \in 1..(max - min + 1) |-> min + i - 1])
  ELSE IF cronTime = Undefined THEN Threw("TypeError")
  ELSE IF includes(cronTime, "-") THEN parseRange(cronTime)
  ELSE IF includes(cronTime, "/") THEN parseStep(cronTime, min, max)
  ELSE IF includes(cronTime, ",") THEN parseList(cronTime)
  ELSE Returned(<<parseInt(cronTime)>>)

\* The six fields in the order parse reads them, with the range parse gives each.
fieldNames == <<"second", "minute", "hour", "dayOfMonth", "month", "dayOfWeek">>

fieldMin(k) == <<0, 0, 0, 1, 1, 0>>[k]

fieldMax(k) == <<59, 59, 23, 31, 12, 6>>[k]

\* parse(): this.cron is rewritten by parseStr, split at blanks, and the first
\* six pieces are parsed in order; the first field that does not return
\* decides how the call ends.  time[k] is the array of field k.
parseFields(pieces) ==
  [k \in 1..6 |-> parseCronTime(At(pieces, k), fieldMin(k), fieldMax(k))]

\* How the calls of parseCronTime end, taken in order: as the first that does
\* not return.
firstErr(field, bad) ==
  IF bad = {} THEN "none" ELSE field[CHOOSE k \in bad : \A j \in bad : k <= j].err

parsed(resolved, field) ==
  [err |-> firstErr(field, {k \in 1..6 : field[k].err # "none"}),
   cron |-> resolved,
   time |-> [k \in 1..6 |-> field[k].vals]]

parse(cron) ==
  The({ The({ parsed(resolved, field) :
              field \in {parseFields(split(resolved, " "))} }) :
        resolved \in {parseStr(cron)} })

\* Cron.isCron / Cron.isValid: true iff parse did not throw.  A parse that never
\* returns gives no answer at all: the caller is cut off inside it.
isCron_always(cron) == TRUE

isCron(cron) == parse(cron).err = "none"

isValid(cron) == isCron(cron)

(***************************************************************************)
(* The host's Date.  A Date is [s |-> whole seconds of local wall-clock    *)
(* time since 2024-01-01 00:00:00, ms |-> the milliseconds 0..999]: its    *)
(* getTime() is s * 1000 + ms, which the model never forms because it      *)
(* leaves the model checker's integers.  Only dates from 2024 on occur.    *)
(***************************************************************************)

isLeap(y) == (y % 4 = 0 /\ y % 100 # 0) \/ y % 400 = 0

daysInYear(y) == IF isLeap(y) THEN 366 ELSE 365

\* m is the Date's month, 0 = January.
daysInMonth(y, m) ==
  IF m = 1 THEN (IF isLeap(y) THEN 29 ELSE 28)
  ELSE IF m \in {3, 5, 8, 10} THEN 30 ELSE 31

dayIndex(d) == d.s \div 86400

\* <<year, month, date>> of the day that lies n days into year y, month m.
RECURSIVE ymdFrom(_, _, _)
ymdFrom(n, y, m) ==
  IF n < daysInMonth(y, m) THEN <<y, m, n + 1>>
  ELSE IF m = 11 THEN ymdFrom(n - daysInMonth(y, m), y + 1, 0)
  ELSE ymdFrom(n - daysInMonth(y, m), y, m + 1)

getFullYear(d) == ymdFrom(dayIndex(d), 2024, 0)[1]

getMonth(d) == ymdFrom(dayIndex(d), 2024, 0)[2]

getDate(d) == ymdFrom(dayIndex(d), 2024, 0)[3]

getHours(d) == (d.s \div 3600) % 24

getMinutes(d) == (d.s \div 60) % 60

getSeconds(d) == d.s % 60

\* 0 = Sunday; 2024-01-01 is a Monday.
getDay(d) == (dayIndex(d) + 1) % 7

\* a.getTime() <= b.getTime()
timeLeq(a, b) == a.s < b.s \/ (a.s = b.s /\ a.ms <= b.ms)

\* a.getTime() - b.getTime(), in milliseconds
timeDiff(a, b) == (a.s - b.s) * 1000 + (a.ms - b.ms)

\* The number of days from 2024-01-01 to the first day of month m of year y.
RECURSIVE daysBefore(_, _)
daysBefore(y, m) ==
  IF m > 0 THEN daysInMonth(y, m - 1) + daysBefore(y, m - 1)
  ELSE IF y > 2024 THEN daysInYear(y - 1) + daysBefore(y - 1, 0)
  ELSE 0

\* new Date(year, month, date, hours, minutes, seconds): milliseconds are 0.
newDate(y, m, d, h, mi, sec) ==
  [s |-> (daysBefore(y, m) + d - 1) * 86400 + h * 3600 + mi * 60 + sec, ms |-> 0]

\* date.setSeconds(date.getSeconds() + k): the Date moves by k seconds.
addSeconds(d, k) == [d EXCEPT !.s = @ + k]

\* The Date that lies k milliseconds after d, 0 <= k.
addMilliseconds(d, k) ==
  [s |-> d.s + (d.ms + k) \div 1000, ms |-> (d.ms + k) % 1000]

\* The value null of a field declared Date | null.
NullDate == [s |-> Null, ms |-> Null]

(***************************************************************************)
(* CronParser: matching and the search for the next and previous           *)
(* occurrence (src/lib/parser.ts).                                         *)
(***************************************************************************)

\* array.includes(v)
arrayIncludes(arr, v) == \E i \in 1..Len(arr) : arr[i] = v

\* A checkCronTime that tests the day of the week only when the month does not
\* match, and accepts the date when the month does.
checkCronTime_monthOrDay(cronTime, date) ==
  IF ~arrayIncludes(cronTime[1], getSeconds(date)) THEN FALSE
  ELSE IF ~arrayIncludes(cronTime[2], getMinutes(date)) THEN FALSE
  ELSE IF ~arrayIncludes(cronTime[3], getHours(date)) THEN FALSE
  ELSE IF ~arrayIncludes(cronTime[4], getDate(date)) THEN FALSE
  ELSE IF arrayIncludes(cronTime[5], getMonth(date) + 1) THEN TRUE
  ELSE arrayIncludes(cronTime[6], getDay(date))

\* The guards "cronTime.second && ..." are always true: parse sets every field
\* to an array, and an array, even an empty one, is truthy.
checkCronTime(cronTime, date) ==
  IF ~arrayIncludes(cronTime[1], getSeconds(date)) THEN FALSE
  ELSE IF ~arrayIncludes(cronTime[2], getMinutes(date)) THEN FALSE
  ELSE IF ~arrayIncludes(cronTime[3], getHours(date)) THEN FALSE
  ELSE IF ~arrayIncludes(cronTime[4], getDate(date)) THEN FALSE
  ELSE IF ~arrayIncludes(cronTime[5], getMonth(date) + 1) THEN FALSE
  ELSE IF ~arrayIncludes(cronTime[6], getDay(date)) THEN FALSE
  ELSE TRUE

\* The number of candidates the model follows a search loop through.  The loops
\* of getNext and getPrevious have no exit but a match; a search that has found
\* none after SearchBound further candidates is reported as still running
\* ("loop").  The expressions and instants of the model are chosen so that this
\* happens only to field sets that match no instant at all: a full minute of
\* candidates is followed, and every field set of the model that matches some
\* instant matches one within a minute of every instant of the model.
SearchBound == 61

\* while (!this.checkCronTime(cronTime, d)) d.setSeconds(d.getSeconds() + step)
\* The result is the Date the loop leaves with, NullDate when it is still
\* running after fuel further candidates.
RECURSIVE searchLoop(_, _, _, _)
searchLoop(cronTime, d, step, fuel) ==
  IF checkCronTime(cronTime, d) THEN d
  ELSE IF fuel = 0 THEN NullDate
  ELSE searchLoop(cronTime, addSeconds(d, step), step, fuel - 1)

\* now with its milliseconds dropped, as getNext and getPrevious rebuild it.
truncated(now) ==
  newDate(getFullYear(now), getMonth(now), getDate(now),
          getHours(now), getMinutes(now), getSeconds(now))

\* What a search returns: how it ended, the Date found, and the expression
\* parse has left in this.cron.
searched(p, date) ==
  [err |-> IF p.err # "none" THEN p.err ELSE IF date = NullDate THEN "loop" ELSE "none",
   date |-> date, cron |-> p.cron]

\* The body of getNext and getPrevious: the first candidate lies first seconds
\* from the truncated now, the following ones step seconds further each.
search(cron, now, first, step) ==
  The({ The({ searched(p, date) :
              date \in { IF p.err # "none" THEN NullDate
                         ELSE searchLoop(p.time, addSeconds(truncated(now), first),
                                         step, SearchBound) } }) :
        p \in {parse(cron)} })

\* A getNext whose first candidate is now itself.
getNext_fromNow(cron, now) == search(cron, now, 0, 1)

getNext(cron, now) == search(cron, now, 1, 1)

getPrevious(cron, now) == search(cron, now, -1, -1)

\* An instant of 2024, for stating inputs readably (month 1 = January).
At2024(month, date, h, mi, sec, ms) ==
  [newDate(2024, month - 1, date, h, mi, sec) EXCEPT !.ms = ms]

(***************************************************************************)
(* CBResolver (src/lib/utils.ts) and Cron (src/lib/cron.ts).               *)
(*                                                                         *)
(* A job is a record: cron is the expression its parser holds (parse       *)
(* rewrites it), options the callbacks and the start flag it was built     *)
(* with, status, interval and next the private fields of the class.        *)
(* timers is the set of the host's active interval timers whose handler    *)
(* belongs to the job, seq the number of timers the job has created; the   *)
(* handle of the n-th is n.  calls, ticks and completes count the          *)
(* invocations of options.callback, options.onTick and options.onComplete, *)
(* and firing lists the callbacks the last run of the interval handler     *)
(* invoked, in order.                                                      *)
(***************************************************************************)

\* How the functions given in the options behave when called: they return,
\* throw, return a promise that is rejected, or return a promise that settles
\* later, after the caller has gone on ("defers").
CallbackBehaviours == {"returns", "throws", "rejects", "defers"}

\* A CBResolver that is an ordinary function calling the callback, with no
\* try around the call.
CBResolver_bare(given, does) ==
  [invoked |-> IF given THEN 1 ELSE 0,
   thrown |-> IF given /\ does = "throws" THEN 1 ELSE 0,
   rejected |-> IF given /\ does = "rejects" THEN 1 ELSE 0,
   pending |-> IF given /\ does = "defers" THEN 1 ELSE 0]

\* CBResolver(callback): whether the callback was invoked, what the call of
\* CBResolver throws at its caller, whether the promise it returns is
\* rejected, and whether the invocation is still in flight when the call
\* returns.  It is an async function, so it throws nothing itself; what the
\* callback throws, and the rejection the await turns into an exception, are
\* raised inside the try and end in the empty catch.  The call returns its
\* promise at the first await: when the callback returned a promise that has
\* not settled, the rest of CBResolver runs later, when it settles.
CBResolver(given, does) ==
  LET raised == given /\ does \in {"throws", "rejects"}
      caught == raised
  IN [invoked |-> IF given THEN 1 ELSE 0,
      thrown |-> 0,
      rejected |-> IF raised /\ ~caught THEN 1 ELSE 0,
      pending |-> IF given /\ does = "defers" THEN 1 ELSE 0]


\* The fields as the class initializers and the constructor leave them, before
\* the constructor looks at options.start.
newCron(cron, options) ==
  [cron |-> cron, options |-> options,
   status |-> "stopped", interval |-> Null, next |-> NullDate,
   timers |-> {}, seq |-> 0,
   calls |-> 0, ticks |-> 0, completes |-> 0, firing |-> <<>>,
   escaped |-> 0, unhandled |-> 0,
   pending |-> [callback |-> 0, onTick |-> 0, onComplete |-> 0], settled |-> 0]

\* setInterval(handler, 1000): a new active timer, whose handle is returned.
setInterval(j) == [j EXCEPT !.seq = @ + 1, !.timers = @ \cup {j.seq + 1}]

\* clearInterval(handle): the timer with that handle is no longer active.
clearInterval(j, handle) == [j EXCEPT !.timers = @ \ {handle}]

\* start(): [job |-> the job afterwards, err |-> how the call ended].
\* The status is set before getNext runs, so it stays set when getNext throws
\* or never returns.
\* start() on a stopped job, given what getNext does.
started(j, got) ==
  IF got.err # "none"
  THEN [job |-> [j EXCEPT !.status = "running", !.cron = got.cron], err |-> got.err]
  ELSE [job |-> [setInterval(j) EXCEPT !.status = "running", !.cron = got.cron,
                                       !.next = got.date, !.interval = j.seq + 1],
        err |-> "none"]

\* A start() without the guard on the status.
start_unguarded(j, now) == The({ started(j, got) : got \in {getNext(j.cron, now)} })

start(j, now) ==
  IF j.status = "running" THEN [job |-> j, err |-> "none"]
  ELSE The({ started(j, got) : got \in {getNext(j.cron, now)} })

\* A stop() that forgets the cached occurrence.
stop_clearsNext(j) ==
  IF j.status = "stopped" THEN j
  ELSE IF j.interval # Null
       THEN clearInterval([j EXCEPT !.status = "stopped", !.next = NullDate], j.interval)
       ELSE [j EXCEPT !.status = "stopped", !.next = NullDate]

\* A stop() that also abandons the invocations in flight.
stop_abandons(j) ==
  IF j.status = "stopped" THEN j
  ELSE clearInterval([j EXCEPT !.status = "stopped",
                               !.pending = [callback |-> 0, onTick |-> 0, onComplete |-> 0]],
                     j.interval)

\* A stop() that leaves the timer active.
stop_keepsTimer(j) == [j EXCEPT !.status = "stopped"]

stop(j) ==
  IF j.status = "stopped" THEN j
  ELSE LET stopped == [j EXCEPT !.status = "stopped"]
       IN IF j.interval # Null THEN clearInterval(stopped, j.interval)
          ELSE stopped

\* escaped counts the exceptions thrown out of a call made by the job,
\* unhandled the rejected promises such a call returned to the job, which
\* drops them.  pending counts, for each callback, its invocations that are
\* in flight: the promise the function returned has not settled; settled
\* counts those that have run to completion since.
destroy(j) ==
  The({ [stop(j) EXCEPT !.completes = @ + r.invoked,
                        !.escaped = @ + r.thrown, !.unhandled = @ + r.rejected,
                        !.pending.onComplete = @ + r.pending] :
        r \in {CBResolver(j.options.onComplete, j.options.does)} })

\* The job after this.callback() returned a and this.onTick() returned b.
invoked(j, a, b) ==
  [j EXCEPT !.calls = @ + a.invoked,
            !.ticks = @ + b.invoked,
            !.firing = (IF a.invoked = 1 THEN <<"callback">> ELSE <<>>) \o
                       (IF b.invoked = 1 THEN <<"onTick">> ELSE <<>>),
            !.escaped = @ + a.thrown + b.thrown,
            !.unhandled = @ + a.rejected + b.rejected,
            !.pending.callback = @ + a.pending,
            !.pending.onTick = @ + b.pending]

\* What this.onTick() does when it is never reached.
NotCalled == [invoked |-> 0, thrown |-> 0, rejected |-> 0, pending |-> 0]

\* A firing that invokes the action alone.
fire_callbackOnly(j) ==
  The({ invoked(j, a, NotCalled) : a \in {CBResolver(TRUE, j.options.does)} })

\* The callbacks of one firing: this.callback(), then this.onTick(), which is
\* not reached when this.callback() throws.  options.callback is always given
\* (it is not optional); firing lists the functions of the options that the
\* handler run invoked, in order.
fire(j) ==
  The({ IF a.thrown = 1 THEN invoked(j, a, NotCalled) ELSE invoked(j, a, b) :
        a \in {CBResolver(TRUE, j.options.does)},
        b \in {CBResolver(j.options.onTick, j.options.does)} })

\* The handler when the occurrence is due, given the job after the callbacks
\* and what getNext does: getNext is reached when none of the two calls threw.
fired(j, f, got) ==
  IF f.escaped # j.escaped THEN [job |-> f, err |-> "Error"]
  ELSE IF got.err # "none" THEN [job |-> [f EXCEPT !.cron = got.cron], err |-> got.err]
  ELSE [job |-> [f EXCEPT !.cron = got.cron, !.next = got.date], err |-> "none"]

\* An action can also call methods of its own job before it returns: it calls
\* stop() ("stops"), or stop() and then start() ("restarts").  This is what
\* such a behaviour is for the action; the other callbacks of the options
\* then just return.
ReentrantBehaviours == {"stops", "restarts"}

\* What the body of the action does to its job when it runs at the instant
\* now, and how the start() it calls ended.  The body runs inside the try of
\* CBResolver, before its first await, hence before the handler goes on.
acted(j, now) ==
  IF j.options.does = "stops" THEN [job |-> stop(j), err |-> "none"]
  ELSE IF j.options.does = "restarts" THEN start(stop(j), now)
  ELSE [job |-> j, err |-> "none"]

\* The handler when the occurrence is due, given what the body of the action
\* did: an exception of its start() ends in the catch of CBResolver, and a
\* start() that never returns keeps the handler from returning.
fires(j, did, now) ==
  IF did.err = "loop" THEN [job |-> did.job, err |-> "loop"]
  ELSE The({ fired(j, f, got) : f \in {fire(did.job)}, got \in {getNext(j.cron, now)} })

\* A handler that goes on after the action only when the job is still running.
handler_checksStatus(j, now) ==
  IF j.next # NullDate /\ timeLeq(j.next, now)
  THEN The({ IF did.job.status = "running" THEN fires(j, did, now)
             ELSE [job |-> fire_callbackOnly(did.job), err |-> "none"] :
             did \in {acted(j, now)} })
  ELSE [job |-> [j EXCEPT !.firing = <<>>], err |-> "none"]

\* A handler that does nothing while an invocation of the action is in flight.
handler_waits(j, now) ==
  IF j.next # NullDate /\ timeLeq(j.next, now) /\ j.pending.callback = 0
  THEN The({ fired(j, f, got) : f \in {fire(j)}, got \in {getNext(j.cron, now)} })
  ELSE [job |-> [j EXCEPT !.firing = <<>>], err |-> "none"]

\* A handler that computes the next occurrence from the one it has just
\* fired for, not from the current time.
handler_replays(j, now) ==
  IF j.next # NullDate /\ timeLeq(j.next, now)
  THEN The({ fired(j, f, got) : f \in {fire(j)}, got \in {getNext(j.cron, j.next)} })
  ELSE [job |-> [j EXCEPT !.firing = <<>>], err |-> "none"]

\* A handler that never finds the occurrence due.
handler_idle(j, now) == [job |-> [j EXCEPT !.firing = <<>>], err |-> "none"]

\* A handler that fires on every run, due or not.
handler_eager(j, now) ==
  The({ fired(j, f, got) : f \in {fire(j)}, got \in {getNext(j.cron, now)} })

\* One run of the interval handler of start(), at the instant now.
handler(j, now) ==
  IF j.next # NullDate /\ timeLeq(j.next, now)
  THEN The({ fires(j, did, now) : did \in {acted(j, now)} })
  ELSE [job |-> [j EXCEPT !.firing = <<>>], err |-> "none"]

\* A constructor that takes no notice of options.start.
construct_neverStarts(cron, options, now) ==
  [job |-> newCron(cron, options), err |-> "none"]

\* new Cron(options)
construct(cron, options, now) ==
  IF options.start THEN start(newCron(cron, options), now)
  ELSE [job |-> newCron(cron, options), err |-> "none"]

isRunning(j) == j.status = "running"

getStatus(j) == j.status

\* return this.next || new Date()
nextExecution(j, now) == IF j.next # NullDate THEN j.next ELSE now

\* return this.next ? this.next.getTime() - Date.now() : 0
remaining(j, now) == IF j.next # NullDate THEN timeDiff(j.next, now) ELSE 0

(***************************************************************************)
(* The registry (baker.ts).  A Baker is [crons, objects]: crons is the Map *)
(* this.crons as the sequence of its entries [name, id] in insertion       *)
(* order, the order forEach visits them in; objects are the Cron objects   *)
(* that add() created, [name, job], and the id of an entry is the index of *)
(* its object.  An object that is no longer in the Map still exists as     *)
(* long as a timer refers to it.                                           *)
(***************************************************************************)

\* new Baker(options): the Map is empty, so the bakeAll() of autoStart finds
\* nothing to start.
newBaker == [crons |-> <<>>, objects |-> <<>>]

\* this.crons.has(name)
has(b, name) == \E i \in 1..Len(b.crons) : b.crons[i].name = name

\* this.crons.get(name), for a name the Map has: the id of the object.
get(b, name) == b.crons[CHOOSE i \in 1..Len(b.crons) : b.crons[i].name = name].id

\* The ids of the objects in the Map.
registered(b) == {b.crons[i].id : i \in 1..Len(b.crons)}

\* this.crons.set(name, cron): an entry of that name keeps its place and gets
\* the new object, a new name goes last.
mapSet(crons, name, id) ==
  IF \E i \in 1..Len(crons) : crons[i].name = name
  THEN [i \in 1..Len(crons) |->
          IF crons[i].name = name THEN [name |-> name, id |-> id] ELSE crons[i]]
  ELSE Append(crons, [name |-> name, id |-> id])

\* this.crons.delete(name)
mapDelete(crons, name) == SelectSeq(crons, LAMBDA e : e.name # name)

\* add(options), given what Cron.create(options) did: when the constructor
\* throws or never returns, so does add, before the Map is touched.
added(b, name, made) ==
  IF made.err # "none" THEN [baker |-> b, err |-> made.err]
  ELSE [baker |-> [crons |-> mapSet(b.crons, name, Len(b.objects) + 1),
                   objects |-> Append(b.objects, [name |-> name, job |-> made.job])],
        err |-> "none"]

add(b, name, cron, options, now) ==
  The({ added(b, name, made) : made \in {construct(cron, options, now)} })

\* An add() that destroys the job registered under the name before it
\* registers the new one.
add_replacing(b, name, cron, options, now) ==
  The({ added(IF has(b, name)
              THEN [b EXCEPT !.objects[get(b, name)].job = destroy(@)] ELSE b,
              name, made) :
        made \in {construct(cron, options, now)} })

\* A remove() that deletes the entry and leaves the job as it is.
remove_keepsJob(b, name) == [b EXCEPT !.crons = mapDelete(@, name)]

remove(b, name) ==
  IF has(b, name)
  THEN [crons |-> mapDelete(b.crons, name),
        objects |-> [b.objects EXCEPT ![get(b, name)].job = destroy(@)]]
  ELSE b

\* cron.start() on the object id, given what it did.
baked(b, id, did) == [baker |-> [b EXCEPT !.objects[id].job = did.job], err |-> did.err]

startJob(b, id, now) ==
  The({ baked(b, id, did) : did \in {start(b.objects[id].job, now)} })

\* A bake() that calls start() on whatever get() returned.
bake_unguarded(b, name, now) ==
  IF has(b, name) THEN startJob(b, get(b, name), now)
  ELSE [baker |-> b, err |-> "TypeError"]

bake(b, name, now) ==
  IF has(b, name) THEN startJob(b, get(b, name), now)
  ELSE [baker |-> b, err |-> "none"]

Baker_stop(b, name) ==
  IF has(b, name) THEN [b EXCEPT !.objects[get(b, name)].job = stop(@)]
  ELSE b

Baker_destroy(b, name) ==
  IF has(b, name)
  THEN [crons |-> mapDelete(b.crons, name),
        objects |-> [b.objects EXCEPT ![get(b, name)].job = destroy(@)]]
  ELSE b

Baker_getStatus(b, name) ==
  IF has(b, name) THEN getStatus(b.objects[get(b, name)].job) ELSE "stopped"

Baker_isRunning(b, name) ==
  IF has(b, name) THEN isRunning(b.objects[get(b, name)].job) ELSE FALSE

\* What a query that returns a Date returned.
Answer(date) == [err |-> "none", date |-> date]

\* Cron.lastExecution: return this.parser.getPrevious()
lastExecution(j, now) ==
  The({ [err |-> got.err, date |-> got.date] : got \in {getPrevious(j.cron, now)} })

Baker_lastExecution(b, name, now) ==
  IF has(b, name) THEN lastExecution(b.objects[get(b, name)].job, now)
  ELSE Answer(now)

Baker_nextExecution(b, name, now) ==
  IF has(b, name) THEN nextExecution(b.objects[get(b, name)].job, now) ELSE now

Baker_remaining(b, name, now) ==
  IF has(b, name) THEN remaining(b.objects[get(b, name)].job, now) ELSE 0

\* Cron.time: return Date.now(), the instant of the clock (a Date of the model).
Cron_time(j, now) == now

Baker_time(b, name, now) ==
  IF has(b, name) THEN Cron_time(b.objects[get(b, name)].job, now) ELSE 0

\* this.crons.forEach((cron) => cron.start()) from entry i on: a start() that
\* throws ends the forEach, and bakeAll, there.
RECURSIVE bakeFrom(_, _, _)
bakeFrom(b, i, now) ==
  IF i > Len(b.crons) THEN [baker |-> b, err |-> "none"]
  ELSE The({ IF did.err # "none" THEN did ELSE bakeFrom(did.baker, i + 1, now) :
             did \in {startJob(b, b.crons[i].id, now)} })

\* A bakeAll() that starts the first job of the Map only.
bakeAll_firstOnly(b, now) ==
  IF b.crons = <<>> THEN [baker |-> b, err |-> "none"]
  ELSE startJob(b, b.crons[1].id, now)

bakeAll(b, now) == bakeFrom(b, 1, now)

stopAll(b) ==
  [b EXCEPT !.objects = [id \in 1..Len(b.objects) |->
                           IF id \in registered(b)
                           THEN [b.objects[id] EXCEPT !.job = stop(@)]
                           ELSE b.objects[id]]]

destroyAll(b) ==
  [crons |-> <<>>,
   objects |-> [id \in 1..Len(b.objects) |->
                  IF id \in registered(b)
                  THEN [b.objects[id] EXCEPT !.job = destroy(@)]
                  ELSE b.objects[id]]]

(***************************************************************************)
(* The state machine of one job.                                           *)
(***************************************************************************)

VARIABLES
  job,      \* the Cron object
  now,      \* the host's clock: what new Date() and Date.now() return
  op,       \* the last operation performed
  outcome,  \* how it ended: "none" (returned), "TypeError" (threw) or "loop"
  call,     \* the last call made on the parser alone: its arguments and result
  baker     \* the Baker object and the Cron objects its add() created

vars == <<job, now, op, outcome, call, baker>>

\* The clock runs from T0 for MaxNow seconds, in steps of half a second.
MaxNow == 3

T0 == At2024(2, 29, 23, 59, 59, 0)

\* Bounds on the number of start() calls that create a timer and of destroy()
\* calls on one job.
MaxTimers == 2

MaxDestroys == 2

\* Expressions of the jobs: every second, every other second, every minute,
\* one with three fields only (parse throws) and one whose second field
\* matches no instant (getNext never returns).  The first three have an
\* occurrence within a minute of every instant.
JobCrons ==
  {"* * * * * *", "*/2 * * * * *", "@every_minute", "* * *", "61 * * * * *"}

\* The options of the jobs: whether start, onTick and onComplete are given,
\* and what the callbacks given do.
JobOptions ==
  [start : BOOLEAN, onTick : BOOLEAN, onComplete : BOOLEAN, does : {"returns"}]

\* A call on the parser: the function, the expression of the parser, the Date
\* passed (checkCronTime only), how the call ended, and what it returned: the
\* six arrays (parse), the Date (getNext, getPrevious), the boolean (isValid,
\* checkCronTime).
Called(fn, cron, arg, err, time, date, ok) ==
  [fn |-> fn, cron |-> cron, arg |-> arg, err |-> err,
   time |-> time, date |-> date, ok |-> ok]

NoCall == Called("none", "", NullDate, "none", <<>>, NullDate, FALSE)

Init ==
  \E c \in JobCrons, o \in JobOptions :
    \E made \in {construct(c, o, T0)} :
       /\ now = T0
       /\ job = made.job
       /\ outcome = made.err
       /\ op = "new"
       /\ call = NoCall
       /\ baker = newBaker

\* Calls can be made on the job when its constructor returned it and the thread
\* is not caught in a loop that never ends.
Callable == outcome # "loop" /\ ~(op = "new" /\ outcome # "none")

Start ==
  /\ Callable
  /\ job.seq < MaxTimers
  /\ \E did \in {start(job, now)} : job' = did.job /\ outcome' = did.err
  /\ op' = "start"
  /\ UNCHANGED <<now, call, baker>>

Stop ==
  /\ Callable
  /\ job' = stop(job)
  /\ outcome' = "none"
  /\ op' = "stop"
  /\ UNCHANGED <<now, call, baker>>

Destroy ==
  /\ Callable
  /\ job.completes < MaxDestroys
  /\ \E gone \in {destroy(job)} :
       /\ job' = gone
       /\ outcome' = IF gone.escaped # job.escaped THEN "Error" ELSE "none"
  /\ op' = "destroy"
  /\ UNCHANGED <<now, call, baker>>

\* The host runs the handler of an active timer.
Tick ==
  /\ Callable
  /\ \E id \in job.timers, ran \in {handler(job, now)} :
       job' = ran.job /\ outcome' = ran.err
  /\ op' = "tick"
  /\ UNCHANGED <<now, call, baker>>

\* Time passes.
Advance ==
  /\ outcome # "loop"
  /\ timeDiff(now, T0) < MaxNow * 1000
  /\ now' = addMilliseconds(now, 500)
  /\ UNCHANGED <<job, op, outcome, call, baker>>

Next == Start \/ Stop \/ Destroy \/ Tick \/ Advance

Spec == Init /\ [][Next]_vars

\* The same job on a host whose clock keeps advancing (up to the end of the
\* model's clock) and which keeps running the handler of an active timer:
\* setInterval(handler, 1000) runs it again and again until it is cleared.
\* The expressions: every second, and the even seconds that the model's clock
\* reaches.
LiveCrons == {"* * * * * *", "0,2,4,6 * * * * *"}

\* The options of such a job: the handlers play no part in whether it fires.
LiveOptions ==
  [start : BOOLEAN, onTick : {FALSE}, onComplete : {FALSE}, does : {"returns"}]

InitLive ==
  \E c \in LiveCrons, o \in LiveOptions :
    \E made \in {construct(c, o, T0)} :
       /\ now = T0
       /\ job = made.job
       /\ outcome = made.err
       /\ op = "new"
       /\ call = NoCall
       /\ baker = newBaker

SpecLive == InitLive /\ [][Next]_vars /\ WF_vars(Advance) /\ WF_vars(Tick)

\* The same job, given an action that calls stop(), or stop() and start(), on
\* the job itself.
ReentrantCrons == {"* * * * * *", "*/2 * * * * *"}

ReentrantOptions ==
  [start : BOOLEAN, onTick : BOOLEAN, onComplete : {FALSE}, does : ReentrantBehaviours]

InitReentrant ==
  \E c \in ReentrantCrons, o \in ReentrantOptions :
    \E made \in {construct(c, o, T0)} :
       /\ now = T0
       /\ job = made.job
       /\ outcome = made.err
       /\ op = "new"
       /\ call = NoCall
       /\ baker = newBaker

SpecReentrant == InitReentrant /\ [][Next]_vars

\* The same job, given callbacks that throw or return a rejected promise.
FailingCrons == {"* * * * * *", "*/2 * * * * *"}

FailingOptions ==
  [start : BOOLEAN, onTick : BOOLEAN, onComplete : BOOLEAN,
   does : CallbackBehaviours \ {"returns"}]

InitFailing ==
  \E c \in FailingCrons, o \in FailingOptions :
    \E made \in {construct(c, o, T0)} :
       /\ now = T0
       /\ job = made.job
       /\ outcome = made.err
       /\ op = "new"
       /\ call = NoCall
       /\ baker = newBaker

SpecFailing == InitFailing /\ [][Next]_vars

\* The same job, given an action and an on-fire callback that return promises
\* which settle later.
AsyncCrons == {"* * * * * *", "*/2 * * * * *"}

AsyncOptions ==
  [start : BOOLEAN, onTick : {TRUE}, onComplete : {FALSE}, does : {"defers"}]

InitAsync ==
  \E c \in AsyncCrons, o \in AsyncOptions :
    \E made \in {construct(c, o, T0)} :
       /\ now = T0
       /\ job = made.job
       /\ outcome = made.err
       /\ op = "new"
       /\ call = NoCall
       /\ baker = newBaker

\* The promise an invocation of the callback k waits for settles, fulfilled or
\* rejected: the rest of that CBResolver call runs (the await returns or
\* throws into the empty catch) and the invocation is over.  This happens
\* between two handler runs or calls, whatever the status of the job.
Settle(k) ==
  /\ outcome # "loop"
  /\ job.pending[k] > 0
  /\ job' = [job EXCEPT !.pending[k] = @ - 1, !.settled = @ + 1]
  /\ op' = "settle"
  /\ UNCHANGED <<now, outcome, call, baker>>

Settles == \E k \in {"callback", "onTick", "onComplete"} : Settle(k)

NextAsync == Start \/ Stop \/ Destroy \/ Tick \/ Advance \/ Settles

SpecAsync == InitAsync /\ [][NextAsync]_vars

(***************************************************************************)
(* The parser on its own: calls of the static functions of Cron and of the *)
(* methods of a CronParser made for the call, at instants of the clock.    *)
(***************************************************************************)

\* Expressions given to parse and isValid.
\* Expressions that put each field syntax (range, range with step, step from
\* a value, step from *, list, single value) in each of the six fields.
SyntaxExprs ==
  {"1-10/3 5,10,15 */6 1-5 2/3 1,3,5", "10/20 0-59 8 */10 */4 0-6/2",
   "0,30 */15 0-23/6 1,15 6-8 3/2", "5 20/5 1,2,3 10-20/5 12 */2",
   "7-7 3 20/2 5/7 1,12 2-4", "50-70 70/5 * * * *"}

\* A number written in decimal, as a template literal prints it.
RECURSIVE Decimal(_)
Decimal(n) ==
  IF n < 10 THEN SubSeq("0123456789", n + 1, n + 1)
  ELSE Decimal(n \div 10) \o SubSeq("0123456789", (n % 10) + 1, (n % 10) + 1)

\* The units of the type unit, in the order of the fields they name.
unitNames == <<"seconds", "minutes", "hours", "dayOfMonth", "months", "dayOfWeek">>

\* "@every_<n>_<unit>", n a number.
Every(n, unit) == "@every_" \o Decimal(n) \o "_" \o unit

\* The steps given to "@every_<n>_<unit>" and to "*/<n>".
EverySteps == 1..59

\* "@at_<hour>:<minute>" for every hour and minute of the day.
AtHour(h, m) == "@at_" \o Decimal(h) \o ":" \o Decimal(m)

AtExprs == { AtHour(h, m) : h \in 0..23, m \in 0..59 }

EveryExprs == { Every(n, unitNames[u]) : n \in EverySteps, u \in 1..6 }

\* The literal a step of n seconds is written as.
StepLiteral(n) == "*/" \o Decimal(n) \o " * * * * *"

StepLiterals == { StepLiteral(n) : n \in EverySteps }

ParseExprs ==
  aliasNames \cup SyntaxExprs \cup EveryExprs \cup StepLiterals \cup AtExprs \cup
  {"* * * * * *", "0 0 0 * * *", "*/5 * * * * *", "1-10/2 * * * * *",
   "1,2,3 * * * * *", "10-20 * * * * *", "5 4 3 2 1 0", "59 59 23 31 12 6",
   "a * * * * *", "* * * * * b", "99 * * * * *", "* * * 0 * *", "5-1 * * * * *",
   "* * *", "", "*/0 * * * * *", "*/a * * * * *", "1,a * * * * *",
   "5/0 * * * * *", "1-5/0 * * * * *", "1-5/a * * * * *", "* * * * * 0-6/0",
   "70/0 * * * * *", "5-1/0 * * * * *",
   "@every_5_seconds", "@every_2_minutes", "@every_3_hours",
   "@every_2_dayOfMonth", "@every_2_months", "@every_2_dayOfWeek",
   "@at_3:15", "@on_sunday", "@on_friday", "@on_saturday", "@between_1_3"}

\* Expressions given to getNext and getPrevious at every instant of
\* SearchNows: each has an occurrence within a minute before and after each.
PeriodicExprs ==
  {"* * * * * *", "*/5 * * * * *", "@every_minute", "58,59,0 * * * * *",
   "* * * 29,1 2,3 4,5", "10-20/3 59,0 * * * *"}

\* Expressions with no occurrence at all: an empty second field, a second out
\* of range, a second field with no number in it, the 31st and the 30th of
\* February.
NeverExprs ==
  {"5-1 * * * * *", "61 * * * * *", "a * * * * *", "0 0 0 31 2 *", "* * * 30 2 *"}

BeforeMidnight ==
  {At2024(2, 29, 23, 59, 30, 250), At2024(2, 29, 23, 59, 59, 0),
   At2024(2, 29, 23, 59, 59, 999)}

AfterMidnight ==
  {At2024(3, 1, 0, 0, 0, 0), At2024(3, 1, 0, 0, 0, 1), At2024(3, 1, 0, 0, 15, 0)}

SearchNows == BeforeMidnight \cup AfterMidnight

\* <<expression, instant>> given to getNext.  Friday 2024-03-01 00:00:00 and
\* Thursday 2024-02-29 23:59:59 are the only occurrences of their expressions
\* for years, and are searched for from less than a minute away.
NextCases ==
  ((PeriodicExprs \cup NeverExprs \cup {"* * *"}) \X SearchNows)
    \cup ({"0 0 0 1 3 5"} \X BeforeMidnight)
    \cup {<<"59 59 23 29 2 4", At2024(2, 29, 23, 59, 30, 250)>>}

\* <<expression, instant>> given to getPrevious.
PreviousCases ==
  ((PeriodicExprs \cup NeverExprs \cup {"* * *"}) \X SearchNows)
    \cup {<<"0 0 0 1 3 5", At2024(3, 1, 0, 0, 15, 0)>>}
    \cup ({"59 59 23 29 2 4"} \X AfterMidnight)

\* The day names of the type day, in the order of the week, and the expression
\* "@on_<day>" of each.
dayNames ==
  <<"sunday", "monday", "tuesday", "wednesday", "thursday", "friday", "saturday">>

OnDayExprs == { "@on_" \o dayNames[i] : i \in 1..7 }

\* Expressions and Dates given to checkCronTime.
CheckExprs ==
  aliasNames \cup OnDayExprs \cup
  {"* * * * * *", "* * * * 3 *", "* * * * * 5", "* * * * 3 5", "* * * * 2 5",
   "* * * 1 * *", "0 * * * * *", "* 0 * * * *", "* * 0 * * *", "0 0 0 1 3 5",
   "* * * 29 2 4", "* * * * 2,3 4,5"}

CheckDates ==
  {At2024(2, 29, 23, 59, 59, 0), At2024(3, 1, 0, 0, 0, 0), At2024(3, 1, 0, 0, 1, 0),
   At2024(3, 1, 0, 1, 0, 0), At2024(3, 1, 1, 0, 0, 0), At2024(3, 2, 0, 0, 0, 0),
   At2024(2, 23, 0, 0, 0, 0), At2024(4, 5, 0, 0, 0, 0), At2024(3, 8, 12, 30, 15, 0),
   At2024(3, 3, 0, 0, 0, 0), At2024(1, 1, 0, 0, 0, 0), At2024(1, 1, 1, 0, 0, 0)}

\* What a behaviour of the parser is given: an expression, the instant of the
\* clock, and the Date passed to checkCronTime (NullDate when none is).
ParserInputs ==
  (ParseExprs \X {T0} \X {NullDate})
    \cup { <<c[1], c[2], NullDate>> : c \in NextCases \cup PreviousCases }
    \cup (CheckExprs \X {T0} \X CheckDates)

InitParser ==
  \E in \in ParserInputs :
    /\ now = in[2]
    /\ call = Called("none", in[1], in[3], "none", <<>>, NullDate, FALSE)
    /\ job = newCron(in[1], [start |-> FALSE, onTick |-> FALSE, onComplete |-> FALSE,
                                 does |-> "returns"])
    /\ op = "none"
    /\ outcome = "none"
    /\ baker = newBaker

\* new CronParser(cron).parse()
CallParse ==
  /\ call.fn = "none" /\ call.cron \in ParseExprs /\ call.arg = NullDate
  /\ \E p \in {parse(call.cron)} :
       call' = [call EXCEPT !.fn = "parse", !.err = p.err, !.time = p.time]
  /\ UNCHANGED <<job, now, op, outcome, baker>>

\* Cron.isValid(cron).  A parse that never returns gives no answer.
CallIsValid ==
  /\ call.fn = "none" /\ call.cron \in ParseExprs /\ call.arg = NullDate
  /\ \E p \in {parse(call.cron)} :
       call' = [call EXCEPT !.fn = "isValid", !.ok = isValid(call.cron),
                            !.err = IF p.err = "loop" THEN "loop" ELSE "none"]
  /\ UNCHANGED <<job, now, op, outcome, baker>>

\* new CronParser(cron).getNext()
CallGetNext ==
  /\ call.fn = "none" /\ <<call.cron, now>> \in NextCases /\ call.arg = NullDate
  /\ \E got \in {getNext(call.cron, now)} :
       call' = [call EXCEPT !.fn = "getNext", !.err = got.err, !.date = got.date]
  /\ UNCHANGED <<job, now, op, outcome, baker>>

\* new CronParser(cron).getPrevious()
CallGetPrevious ==
  /\ call.fn = "none" /\ <<call.cron, now>> \in PreviousCases /\ call.arg = NullDate
  /\ \E got \in {getPrevious(call.cron, now)} :
       call' = [call EXCEPT !.fn = "getPrevious", !.err = got.err, !.date = got.date]
  /\ UNCHANGED <<job, now, op, outcome, baker>>

\* checkCronTime(cronTime, date), cronTime being what parse returns
CallCheckCronTime ==
  /\ call.fn = "none" /\ call.cron \in CheckExprs /\ call.arg \in CheckDates
  /\ \E p \in {parse(call.cron)} :
       call' = [call EXCEPT !.fn = "checkCronTime", !.time = p.time,
                            !.ok = checkCronTime(p.time, call.arg)]
  /\ UNCHANGED <<job, now, op, outcome, baker>>

NextParser ==
  CallParse \/ CallIsValid \/ CallGetNext \/ CallGetPrevious \/ CallCheckCronTime

SpecParser == InitParser /\ [][NextParser]_vars

(***************************************************************************)
(* The state machine of a Baker and of the jobs its add() creates: the     *)
(* calls made on the Baker, all at the instant T0.  What the timers of the *)
(* jobs do as time passes is the subject of the machine of one job; here a *)
(* timer is only active or not.                                            *)
(***************************************************************************)

BakerNames == {"a", "b"}

\* An expression with an occurrence every second, and one parse throws on.
BakerCrons == {"* * * * * *", "* * *"}

BakerOptions ==
  [start : BOOLEAN, onTick : {FALSE}, onComplete : {TRUE}, does : {"returns"}]

\* Bounds on the number of jobs add() creates and on the start() calls that
\* give one of them a timer.
MaxObjects == 2

MaxBakes == 1

InitBaker ==
  /\ now = T0
  /\ baker = newBaker
  /\ job = newCron("", [start |-> FALSE, onTick |-> FALSE, onComplete |-> FALSE,
                        does |-> "returns"])
  /\ op = "new"
  /\ outcome = "none"
  /\ call = NoCall

\* What is left of an object that nothing refers to any more.
Collected == [name |-> "", job |-> newCron("", [start |-> FALSE, onTick |-> FALSE,
                                               onComplete |-> FALSE, does |-> "returns"])]

\* The host's garbage collector: an object that is not in the Map and has no
\* active timer cannot be reached by the Baker or by the host, and its fields
\* are no longer part of the state.
collect(b) ==
  [b EXCEPT !.objects = [id \in 1..Len(b.objects) |->
                           IF id \in registered(b) \/ b.objects[id].job.timers # {}
                           THEN b.objects[id] ELSE Collected]]

\* The jobs in the Map can each be started once more.
CanStart(ids) ==
  \A id \in ids : isRunning(baker.objects[id].job) \/ baker.objects[id].job.seq < MaxBakes

AddJob(n, c, o) ==
  /\ Len(baker.objects) < MaxObjects
  /\ \E did \in {add(collect(baker), n, c, o, now)} : baker' = did.baker /\ outcome' = did.err
  /\ op' = "add"
  /\ UNCHANGED <<job, now, call>>

Add == \E n \in BakerNames, c \in BakerCrons, o \in BakerOptions : AddJob(n, c, o)

RemoveJob(n) ==
  /\ baker' = remove(collect(baker), n)
  /\ outcome' = "none"
  /\ op' = "remove"
  /\ UNCHANGED <<job, now, call>>

Remove == \E n \in BakerNames : RemoveJob(n)

BakeJob(n) ==
  /\ has(baker, n) => CanStart({get(baker, n)})
  /\ \E did \in {bake(collect(baker), n, now)} : baker' = did.baker /\ outcome' = did.err
  /\ op' = "bake"
  /\ UNCHANGED <<job, now, call>>

Bake == \E n \in BakerNames : BakeJob(n)

StopJob(n) ==
  /\ baker' = Baker_stop(collect(baker), n)
  /\ outcome' = "none"
  /\ op' = "stop"
  /\ UNCHANGED <<job, now, call>>

BakerStop == \E n \in BakerNames : StopJob(n)

DestroyJob(n) ==
  /\ baker' = Baker_destroy(collect(baker), n)
  /\ outcome' = "none"
  /\ op' = "destroy"
  /\ UNCHANGED <<job, now, call>>

BakerDestroy == \E n \in BakerNames : DestroyJob(n)

BakeAll ==
  /\ CanStart(registered(baker))
  /\ \E did \in {bakeAll(collect(baker), now)} : baker' = did.baker /\ outcome' = did.err
  /\ op' = "bakeAll"
  /\ UNCHANGED <<job, now, call>>

StopAll ==
  /\ baker' = stopAll(collect(baker))
  /\ outcome' = "none"
  /\ op' = "stopAll"
  /\ UNCHANGED <<job, now, call>>

DestroyAll ==
  /\ baker' = destroyAll(collect(baker))
  /\ outcome' = "none"
  /\ op' = "destroyAll"
  /\ UNCHANGED <<job, now, call>>

NextBaker ==
  \/ Add \/ Remove \/ Bake \/ BakerStop \/ BakerDestroy
  \/ BakeAll \/ StopAll \/ DestroyAll

SpecBaker == InitBaker /\ [][NextBaker]_vars


(***************************************************************************)
(* The search bound of the model does not cut a search short: a search is  *)
(* reported as never ending only for an expression with no occurrence.     *)
(***************************************************************************)
LoopIsReal ==
  /\ (call.fn \in {"getNext", "getPrevious"} /\ call.err = "loop")
       => call.cron \in NeverExprs
  /\ outcome = "loop" => job.cron = "61 * * * * *"

(***************************************************************************)
(* Claims about one job, checked under Spec.                               *)
(***************************************************************************)

\* A constructor that threw leaves no object, and a call that never returns
\* leaves no state to observe.
Observable == outcome # "loop" /\ ~(op = "new" /\ outcome # "none")

\* C1: a job whose status is running has exactly one active timer, and a job
\* whose status is stopped has none.
C1_RunningOwnsOneTimer ==
  Observable =>
    /\ getStatus(job) = "running" => Cardinality(job.timers) = 1
    /\ getStatus(job) = "stopped" => job.timers = {}

\* C2: stop() leaves isRunning() false, and no step taken by a stopped job,
\* whether the clock advances or a timer runs, invokes the action; start() is
\* the only way out of the stopped status.
C2_StoppedNeverFires ==
  [][ /\ Stop => ~isRunning(job')
      /\ getStatus(job) = "stopped" =>
           /\ job'.calls = job.calls
           /\ (isRunning(job') => Start) ]_vars

\* C2 witness: a job that has fired, was stopped, and is still stopped while
\* the occurrence it had computed has come due.
C2_Witness ==
  /\ getStatus(job) = "stopped"
  /\ job.calls > 0
  /\ job.next # NullDate /\ timeLeq(job.next, now)
  /\ ~timeLeq(now, job.next)

\* C3: the on-dispose callback is invoked by the first destroy() and never
\* again: however many times destroy() is called, it has run at most once.
C3_CompleteOnce ==
  job.options.onComplete => job.completes <= 1

\* C4: a firing invokes the action and then the on-fire callback: the handler
\* run that fires calls both, in that order, and over the life of the job the
\* on-fire callback has run as often as the action.
C4_ActionThenOnTick ==
  /\ job.firing # <<>> => job.firing[1] = "callback"
  /\ job.options.onTick =>
       /\ job.firing \in {<<>>, <<"callback", "onTick">>}
       /\ job.ticks = job.calls

\* C4 witness: the second firing of a job that has an on-fire callback.
C4_Witness ==
  /\ op = "tick"
  /\ job.firing = <<"callback", "onTick">>
  /\ job.calls = 2 /\ job.ticks = 2

\* C5: start() on a running job changes nothing: status, timer, handle and
\* next occurrence are what they were, and the call returns.
C5_StartIsIdempotent ==
  [][ (Start /\ isRunning(job)) => (job' = job /\ outcome' = "none") ]_vars

\* C5 witness: the last call is a start(), on a job that is still on its first
\* timer and has fired since that timer was created.
C5_Witness ==
  /\ op = "start"
  /\ isRunning(job) /\ job.timers = {1} /\ job.seq = 1
  /\ job.calls > 0

\* The handler run of this step fired.
Fired == Tick /\ job'.calls # job.calls

\* C12: when the callbacks given to the job throw or return rejected
\* promises, no call made by the job ends with an exception or leaves the job
\* a rejected promise; a handler run that fires invokes the action and the
\* on-fire callback (when one is given), leaves the status and the timer as
\* they were and caches a next occurrence that lies after now, so that later
\* firings occur; destroy() stops the job.
C12_CallbackErrorsSwallowed ==
  [][ /\ job'.escaped = 0 /\ job'.unhandled = 0 /\ outcome' # "Error"
      /\ Fired =>
           /\ job'.firing = <<"callback">> \o
                            (IF job.options.onTick THEN <<"onTick">> ELSE <<>>)
           /\ job'.ticks = job.ticks + (IF job.options.onTick THEN 1 ELSE 0)
           /\ getStatus(job') = getStatus(job) /\ job'.timers = job.timers
           /\ job'.next # job.next /\ ~timeLeq(job'.next, now)
      /\ Destroy => (~isRunning(job') /\ job'.timers = {}) ]_vars

\* C12 witness: the second firing of a running job whose action and on-fire
\* callback both throw.
C12_Witness ==
  /\ job.options.does = "throws" /\ job.options.onTick
  /\ op = "tick" /\ isRunning(job)
  /\ job.calls = 2 /\ job.ticks = 2
  /\ ~timeLeq(job.next, now)

(***************************************************************************)
(* Claims about the parser, checked under SpecParser.                      *)
(***************************************************************************)

\* v is a member of field k of the parsed field set ct.
InField(ct, k, v) == \E i \in 1..Len(ct[k]) : ct[k][i] = v

\* The whole second k seconds into the model's calendar.
Second(k) == [s |-> k, ms |-> 0]

Searched == call.fn \in {"getNext", "getPrevious"}

\* C6: when getNext returns, it returns the earliest whole-second instant
\* strictly after now (truncated to the second) that checkCronTime accepts,
\* and getPrevious the latest one strictly before it: the Date returned has no
\* milliseconds, matches, and no whole second between the truncated now and it
\* matches.
C6_SearchReturnsNearest ==
  (Searched /\ call.err = "none") =>
    \A ct \in {parse(call.cron).time}, base \in {truncated(now)} :
      /\ call.date.ms = 0
      /\ checkCronTime(ct, call.date)
      /\ call.fn = "getNext" =>
           /\ call.date.s > base.s
           /\ ~timeLeq(call.date, now)
           /\ \A k \in (base.s + 1)..(call.date.s - 1) : ~checkCronTime(ct, Second(k))
      /\ call.fn = "getPrevious" =>
           /\ call.date.s < base.s
           /\ \A k \in (call.date.s + 1)..(base.s - 1) : ~checkCronTime(ct, Second(k))

\* C6 witness: a getNext called between two whole seconds that passes over
\* candidates and returns an instant of the following month.
C6_Witness ==
  /\ call.fn = "getNext" /\ call.err = "none"
  /\ now.ms # 0
  /\ call.date.s > now.s + 1
  /\ getMonth(call.date) # getMonth(now)

\* C7: getNext and getPrevious terminate for every parsed field set: a search
\* ends by returning a Date or by failing with NoOccurrenceFound, and is never
\* still running.
C7_SearchTerminates ==
  (Searched /\ call.err # "TypeError") => call.err \in {"none", "NoOccurrenceFound"}

\* C8: when parse succeeds, each of the six arrays is non-empty and each of its
\* values lies in the range of its field.
C8_FieldsInRange ==
  (call.fn = "parse" /\ call.err = "none") =>
    \A k \in 1..6 :
      /\ call.time[k] # <<>>
      /\ \A i \in 1..Len(call.time[k]) :
           /\ ~isNaN(call.time[k][i])
           /\ fieldMin(k) <= call.time[k][i]
           /\ call.time[k][i] <= fieldMax(k)

\* A field that is no number and has none of the operators * - / ,
nonNumericToken(piece) ==
  /\ piece # "*"
  /\ ~includes(piece, "-") /\ ~includes(piece, "/") /\ ~includes(piece, ",")
  /\ isNaN(parseInt(piece))

\* A six-field expression one of whose fields is such a token.
hasNonNumericToken(cron) ==
  \E pieces \in {split(cron, " ")} :
    Len(pieces) = 6 /\ \E k \in 1..6 : nonNumericToken(pieces[k])

\* C9: for an expression with such a field, parse fails with
\* MalformedExpression and isValid returns false.
C9_MalformedRejected ==
  hasNonNumericToken(call.cron) =>
    /\ call.fn = "parse" => call.err = "MalformedExpression"
    /\ call.fn = "isValid" => (call.err = "none" /\ ~call.ok)

\* The first four fields accept the Date d.
TimeAndDateMatch(ct, d) ==
  /\ InField(ct, 1, getSeconds(d))
  /\ InField(ct, 2, getMinutes(d))
  /\ InField(ct, 3, getHours(d))
  /\ InField(ct, 4, getDate(d))

MonthMatches(ct, d) == InField(ct, 5, getMonth(d) + 1)

DayOfWeekMatches(ct, d) == InField(ct, 6, getDay(d))

\* C10 as stated: a Date matches iff second, minute, hour and day of the month
\* match and (the month matches, or the month does not and the day of the week
\* matches).
C10_MatchMonthOrDay ==
  call.fn = "checkCronTime" =>
    (call.ok <=>
       /\ TimeAndDateMatch(call.time, call.arg)
       /\ \/ MonthMatches(call.time, call.arg)
          \/ (~MonthMatches(call.time, call.arg) /\ DayOfWeekMatches(call.time, call.arg)))

\* C10 amended: a Date matches iff each of its six components is a member of
\* the corresponding field set.
C10_MatchAllSix ==
  call.fn = "checkCronTime" =>
    (call.ok <=>
       /\ TimeAndDateMatch(call.time, call.arg)
       /\ MonthMatches(call.time, call.arg)
       /\ DayOfWeekMatches(call.time, call.arg))

\* C10 witness: a Date whose month matches and whose day of the week does not
\* is rejected, and (in another call) a Date matching in all six is accepted.
C10_Witness ==
  /\ call.fn = "checkCronTime"
  /\ TimeAndDateMatch(call.time, call.arg)
  /\ MonthMatches(call.time, call.arg)
  /\ ~DayOfWeekMatches(call.time, call.arg)
  /\ ~call.ok
  /\ Len(call.time[6]) < 7

(***************************************************************************)
(* The reference reading of one field, for C11.                            *)
(***************************************************************************)

\* s is a non-empty string of decimal digits.
isNumeral(s) ==
  /\ s # ""
  /\ \A i \in 1..Len(s) : \E d \in 1..10 : SubSeq(s, i, i) = SubSeq("0123456789", d, d)

\* The number a numeral denotes.
RECURSIVE Numeral(_)
Numeral(s) ==
  IF s = "" THEN 0
  ELSE 10 * Numeral(SubSeq(s, 1, Len(s) - 1))
       + (CHOOSE d \in 0..9 : SubSeq("0123456789", d + 1, d + 1) = SubSeq(s, Len(s), Len(s)))

\* The integers from..to that are a multiple of by away from from.
Stepping(from, to, by) == {v \in from..to : (v - from) % by = 0}

\* A-B and A-B/S, given the two sides of the dash and the right side cut at /.
RangeShape(ab, bs) ==
  /\ Len(ab) = 2 /\ isNumeral(ab[1]) /\ Len(bs) \in {1, 2} /\ isNumeral(bs[1])
  /\ Len(bs) = 2 => (isNumeral(bs[2]) /\ Numeral(bs[2]) >= 1)

RangeSet(ab, bs) ==
  Stepping(Numeral(ab[1]), Numeral(bs[1]), IF Len(bs) = 2 THEN Numeral(bs[2]) ELSE 1)

\* V/S and */S, given the two sides of the slash.
StepShape(vs) ==
  /\ Len(vs) = 2 /\ (vs[1] = "*" \/ isNumeral(vs[1]))
  /\ isNumeral(vs[2]) /\ Numeral(vs[2]) >= 1

StepSet(vs, min, max) ==
  Stepping(IF vs[1] = "*" THEN min ELSE Numeral(vs[1]), max, Numeral(vs[2]))

\* A,B,C given its elements.
ListShape(abc) == Len(abc) >= 2 /\ \A i \in 1..Len(abc) : isNumeral(abc[i])

ListSet(abc) == {Numeral(abc[i]) : i \in 1..Len(abc)}

\* The field f has one of the syntaxes, and vals is the set that syntax
\* denotes in a field of range min..max.
Denotes(f, min, max, vals) ==
  \E ab \in {split(f, "-")}, vs \in {split(f, "/")}, abc \in {split(f, ",")} :
    \/ f = "*" /\ vals = min..max
    \/ /\ Len(ab) = 2
       /\ \E bs \in {split(ab[2], "/")} : RangeShape(ab, bs) /\ vals = RangeSet(ab, bs)
    \/ Len(ab) = 1 /\ StepShape(vs) /\ vals = StepSet(vs, min, max)
    \/ ListShape(abc) /\ vals = ListSet(abc)
    \/ isNumeral(f) /\ vals = {Numeral(f)}

\* The field f has one of the syntaxes of the grammar.
WellFormed(f, min, max) ==
  \E ab \in {split(f, "-")}, vs \in {split(f, "/")}, abc \in {split(f, ",")} :
    \/ f = "*"
    \/ Len(ab) = 2 /\ \E bs \in {split(ab[2], "/")} : RangeShape(ab, bs)
    \/ Len(ab) = 1 /\ StepShape(vs)
    \/ ListShape(abc)
    \/ isNumeral(f)

\* The set of the elements of an array.
Elements(arr) == {arr[i] : i \in 1..Len(arr)}

\* C11: parse returns when all six fields have one of the syntaxes *, A-B,
\* A-B/S, V/S, */S, A,B,C or a bare integer (with a step S of at least 1), and
\* when it returns every field that has one of them holds exactly the integers
\* its syntax denotes for the range of that field, those of a range or a step
\* each once; "* * * * * *" gives the full range in all six fields.
C11_FieldsDenoteReference ==
  call.fn = "parse" =>
    \A pieces \in {split(parseStr(call.cron), " ")} :
      /\ (\A k \in 1..6 : WellFormed(At(pieces, k), fieldMin(k), fieldMax(k))) =>
           call.err = "none"
      /\ \A k \in 1..6 :
           (call.err = "none" /\ WellFormed(At(pieces, k), fieldMin(k), fieldMax(k))) =>
             /\ Denotes(pieces[k], fieldMin(k), fieldMax(k), Elements(call.time[k]))
             /\ ~includes(pieces[k], ",") =>
                  Len(call.time[k]) = Cardinality(Elements(call.time[k]))
      /\ call.cron = "* * * * * *" =>
           \A k \in 1..6 : Elements(call.time[k]) = fieldMin(k)..fieldMax(k)

\* C11 witness: one parse whose six fields use a range with a step, a list, a
\* step from *, a range, a step from a value and a list.
C11_Witness ==
  /\ call.fn = "parse" /\ call.err = "none"
  /\ call.cron = "1-10/3 5,10,15 */6 1-5 2/3 1,3,5"
  /\ call.time[1] = <<1, 4, 7, 10>>
  /\ call.time[3] = <<0, 6, 12, 18>>
  /\ call.time[5] = <<2, 5, 8, 11>>

(***************************************************************************)
(* Claims about the construction of a job and about its queries, checked   *)
(* under Spec.                                                             *)
(***************************************************************************)

\* The expression does not resolve to six fields that each have one of the
\* syntaxes of the grammar.
Malformed(cron) ==
  \E pieces \in {split(parseStr(cron), " ")} :
    \/ Len(pieces) # 6
    \/ \E k \in 1..6 : ~WellFormed(pieces[k], fieldMin(k), fieldMax(k))

\* C13: the construction of a job on a malformed expression fails with
\* MalformedExpression, with and without the start option: it never returns a
\* job.
C13_MalformedConstructionFails ==
  (op = "new" /\ Malformed(job.cron)) => outcome = "MalformedExpression"

\* C14: a constructor that returns leaves a job that is stopped, with
\* isRunning() false, when the start option is not set, and a job that is
\* running when it is.
C14_StatusAfterConstruction ==
  (op = "new" /\ outcome = "none") =>
    /\ ~job.options.start => (getStatus(job) = "stopped" /\ ~isRunning(job))
    /\ job.options.start => (getStatus(job) = "running" /\ isRunning(job))

\* C14 witness: a job just constructed with the start option, running on its
\* first timer with its first occurrence cached.
C14_Witness ==
  /\ op = "new" /\ outcome = "none"
  /\ job.options.start /\ isRunning(job)
  /\ job.timers = {1} /\ job.next # NullDate /\ job.calls = 0

\* A step over which the job is stopped and stays so.
StaysStopped == ~isRunning(job) /\ ~isRunning(job')

JobOf(b, id) == b.objects[id].job

\* C16: the Map holds at most one job per name, and every job that add()
\* created and that has an active timer is the job the Map holds under its
\* name.
C16_TimersAreRegistered ==
  /\ \A n \in BakerNames :
       Cardinality({i \in 1..Len(baker.crons) : baker.crons[i].name = n}) <= 1
  /\ \A id \in 1..Len(baker.objects) :
       JobOf(baker, id).timers # {} =>
         (has(baker, baker.objects[id].name) /\ get(baker, baker.objects[id].name) = id)

\* What the queries return for the names the Map does not have, at instant t.
UnknownNamesDefault(b, t) ==
  \A n \in BakerNames :
    ~has(b, n) =>
      /\ Baker_getStatus(b, n) = "stopped"
      /\ Baker_isRunning(b, n) = FALSE
      /\ Baker_lastExecution(b, n, t) = Answer(t)
      /\ Baker_nextExecution(b, n, t) = t
      /\ Baker_remaining(b, n, t) = 0
      /\ Baker_time(b, n, t) = 0

\* C17: for a name that is not registered, remove, bake, stop and destroy
\* return without an error and leave the Map and every job that is reachable
\* as they were, and the queries return 'stopped', false, the current time
\* (lastExecution, nextExecution) and 0 (remaining, time).
C17_UnknownNameIsNoOp ==
  [][ /\ UnknownNamesDefault(baker, now) /\ UnknownNamesDefault(baker', now')
      /\ \A n \in BakerNames :
           (~has(baker, n) /\ (RemoveJob(n) \/ BakeJob(n) \/ StopJob(n) \/ DestroyJob(n))) =>
             (baker' = collect(baker) /\ outcome' = "none") ]_vars

\* C17 witness: the last call is a remove, and the one job ever added is
\* still registered under "a", running and not destroyed: the call was made
\* with the name "b".
C17_Witness ==
  /\ op = "remove" /\ outcome = "none"
  /\ Len(baker.objects) = 1
  /\ has(baker, "a") /\ ~has(baker, "b")
  /\ isRunning(JobOf(baker, 1)) /\ JobOf(baker, 1).completes = 0
  /\ Baker_isRunning(baker, "b") = FALSE

\* C18: remove(name) and destroy(name) on a registered name leave its job
\* stopped with no active timer and its onComplete invoked once more, the name
\* unregistered (isRunning false, getStatus 'stopped'), and the other entries
\* of the Map and their jobs as they were.
C18_RemoveDestroysAndUnregisters ==
  [][ \A n \in BakerNames :
        (has(baker, n) /\ (RemoveJob(n) \/ DestroyJob(n))) =>
          \E id \in {get(baker, n)} :
            /\ ~isRunning(JobOf(baker', id)) /\ JobOf(baker', id).timers = {}
            /\ JobOf(baker', id).completes = JobOf(baker, id).completes + 1
            /\ ~has(baker', n)
            /\ Baker_isRunning(baker', n) = FALSE
            /\ Baker_getStatus(baker', n) = "stopped"
            /\ baker'.crons = SelectSeq(baker.crons, LAMBDA e : e.name # n)
            /\ \A other \in registered(baker) \ {id} :
                 baker'.objects[other] = baker.objects[other]
            /\ outcome' = "none" ]_vars

\* C18 witness: the job "a", which had been started, has just been destroyed
\* and unregistered by a remove, and the job "b" is still registered and
\* running.
C18_Witness ==
  /\ op = "remove"
  /\ Len(baker.objects) = 2
  /\ baker.objects[1].name = "a" /\ ~has(baker, "a")
  /\ JobOf(baker, 1).seq = 1 /\ JobOf(baker, 1).completes = 1
  /\ ~isRunning(JobOf(baker, 1)) /\ JobOf(baker, 1).timers = {}
  /\ has(baker, "b") /\ Baker_isRunning(baker, "b")

\* C19: after bakeAll() every registered job is running; after stopAll() every
\* registered job is stopped with no active timer; after destroyAll() the Map
\* is empty, every job it held is stopped with its onComplete invoked, and
\* isRunning(name) is false for every name.
C19_AllOperations ==
  [][ /\ BakeAll => \A id \in registered(baker') : isRunning(JobOf(baker', id))
      /\ StopAll =>
           \A id \in registered(baker') :
             ~isRunning(JobOf(baker', id)) /\ JobOf(baker', id).timers = {}
      /\ DestroyAll =>
           /\ baker'.crons = <<>>
           /\ \A id \in registered(baker) :
                /\ ~isRunning(JobOf(baker', id)) /\ JobOf(baker', id).timers = {}
                /\ JobOf(baker', id).completes = JobOf(baker, id).completes + 1
           /\ \A n \in BakerNames : Baker_isRunning(baker', n) = FALSE ]_vars

(***************************************************************************)
(* Claims about the presets, checked under SpecParser.                     *)
(***************************************************************************)

\* The least number of seconds between two instants a preset of that name
\* matches: a second, a minute, an hour, a day, a week, the shortest month
\* and the shortest year.
PresetPeriod(preset) ==
  CASE preset = "@every_second" -> 1
    [] preset = "@every_minute" -> 60
    [] preset = "@hourly" -> 3600
    [] preset = "@daily" -> 86400
    [] preset = "@weekly" -> 7 * 86400
    [] preset = "@monthly" -> 28 * 86400
    [] preset \in {"@yearly", "@annually"} -> 365 * 86400

\* Distances at which a second instant is looked for: a second, a minute, an
\* hour, a day, a week and 31 days.
PeriodSamples == {1, 60, 3600, 86400, 7 * 86400, 31 * 86400}

\* C20: a fixed preset matches one instant per period of its name: each of its
\* six fields holds a value a Date can have, so that some instant matches and
\* getNext returns, and when it matches a Date it matches no Date less than a
\* period later.
C20_PresetPeriods ==
  (call.fn = "checkCronTime" /\ call.cron \in aliasNames) =>
    /\ \A f \in 1..6 : \E v \in fieldMin(f)..fieldMax(f) : arrayIncludes(call.time[f], v)
    /\ call.ok =>
         \A k \in PeriodSamples :
           k < PresetPeriod(call.cron) =>
             ~checkCronTime(call.time, addSeconds(call.arg, k))

(***************************************************************************)
(* Claims about the custom presets, checked under SpecParser.              *)
(***************************************************************************)

\* The number getDay gives the day of the week an "@on_<day>" names:
\* 0 = Sunday .. 6 = Saturday.
DayNumber(cron) == CHOOSE d \in 0..6 : cron = "@on_" \o dayNames[d + 1]

\* C21: "@on_D" matches some instant (its day-of-week field holds a value of
\* 0..6) and matches a Date only if the day of the week of that Date is D.
C21_OnDayMatchesThatDay ==
  (call.fn = "checkCronTime" /\ call.cron \in OnDayExprs) =>
    /\ \E v \in 0..6 : arrayIncludes(call.time[6], v)
    /\ call.ok => getDay(call.arg) = DayNumber(call.cron)

\* C22: "@every_N_<unit>", N >= 1, parses to six fields of which the one the
\* unit names holds the values of */N over the range of that field, and every
\* other one holds its full range.
C22_EveryStepsItsUnit ==
  call.fn = "parse" =>
    \A n \in EverySteps, u \in 1..6 :
      call.cron = Every(n, unitNames[u]) =>
        /\ call.err = "none"
        /\ \A k \in 1..6 :
             Elements(call.time[k]) =
               IF k = u THEN Stepping(fieldMin(k), fieldMax(k), n)
               ELSE fieldMin(k)..fieldMax(k)

\* C23: for every N of 1..59, parse gives "@every_N_seconds" the six fields,
\* and the outcome, it gives the literal "*/N * * * * *", and the second
\* field is 0, N, 2N, ... up to 59, each once and in that order.
C23_EverySecondsRoundTrip ==
  call.fn = "parse" =>
    \A n \in EverySteps :
      call.cron = Every(n, "seconds") =>
        /\ \E lit \in {parse(StepLiteral(n))} :
             call.err = lit.err /\ call.time = lit.time
        /\ call.err = "none"
        /\ call.time[1] = [i \in 1..((59 \div n) + 1) |-> (i - 1) * n]

\* parse has been called on "@every_5_seconds" and has returned the seconds
\* 0, 5, .., 55.
C23_Witness ==
  /\ call.fn = "parse" /\ call.cron = "@every_5_seconds" /\ call.err = "none"
  /\ call.time[1] = <<0, 5, 10, 15, 20, 25, 30, 35, 40, 45, 50, 55>>

\* C24: for every hour H of 0..23 and minute M of 0..59, parse returns on
\* "@at_H:M" with second 0, minute M, hour H, and the full range in
\* day-of-month, month and day-of-week.
C24_AtHourMinute ==
  call.fn = "parse" =>
    \A h \in 0..23, m \in 0..59 :
      call.cron = AtHour(h, m) =>
        /\ call.err = "none"
        /\ call.time[1] = <<0>> /\ call.time[2] = <<m>> /\ call.time[3] = <<h>>
        /\ \A k \in 4..6 : Elements(call.time[k]) = fieldMin(k)..fieldMax(k)

\* parse has been called on "@at_3:15" and has returned minute 15 and hour 3.
C24_Witness ==
  /\ call.fn = "parse" /\ call.cron = "@at_3:15" /\ call.err = "none"
  /\ call.time[2] = <<15>> /\ call.time[3] = <<3>>

\* C25: isValid returns true exactly when parse of the same expression
\* completes without error, and false when parse throws; it returns true for
\* each of the eight fixed presets; and a call of it leaves the job and the
\* registry as they were.
C25_IsValidIffParses ==
  /\ [](call.fn = "isValid" =>
          /\ (call.err = "none" /\ call.ok) <=> parse(call.cron).err = "none"
          /\ parse(call.cron).err = "TypeError" => (call.err = "none" /\ ~call.ok)
          /\ call.cron \in aliasNames => (call.err = "none" /\ call.ok))
  /\ [][CallIsValid => (job' = job /\ baker' = baker)]_vars

\* isValid has been called on an expression parse throws on, and has returned
\* false.
C25_Witness ==
  call.fn = "isValid" /\ call.cron = "* * *" /\ call.err = "none" /\ ~call.ok

(***************************************************************************)
(* Claims about the periodic check, checked under Spec.                    *)
(***************************************************************************)

\* C26: a run of the periodic check invokes the action, once, exactly when the
\* cached next occurrence is at or before the current time, never before it;
\* and when a run that fired has returned, the cached next occurrence is
\* later than the current time truncated to the second.
C26_FiresWhenDue ==
  [][ Tick =>
        /\ job'.calls = job.calls + (IF job.next # NullDate /\ timeLeq(job.next, now)
                                     THEN 1 ELSE 0)
        /\ (job'.calls # job.calls /\ outcome' = "none") =>
             (job'.next # NullDate /\ ~timeLeq(job'.next, truncated(now))) ]_vars

\* C26 witness: a check that fired half a second after the occurrence it had
\* cached, and has cached a later one.
C26_Witness ==
  /\ op = "tick" /\ outcome = "none" /\ job.firing # <<>>
  /\ now.ms = 500
  /\ job.next # NullDate /\ ~timeLeq(job.next, now)

(***************************************************************************)
(* Claims about callbacks that return promises, checked under SpecAsync.   *)
(***************************************************************************)

\* C27: stop() and destroy() leave the invocations of the action and of the
\* on-fire callback that are in flight as they are, neither ended nor
\* dropped, and leave the job without a timer; an invocation in flight can
\* run to completion whatever the status; and no step of a stopped job starts
\* a firing.
C27_StopLeavesInFlight ==
  /\ [][ (Stop \/ Destroy) =>
           /\ job'.pending.callback = job.pending.callback
           /\ job'.pending.onTick = job.pending.onTick
           /\ job'.pending.onComplete >= job.pending.onComplete
           /\ job'.settled = job.settled
           /\ job'.timers = {} ]_vars
  /\ [][ getStatus(job) = "stopped" =>
           (job'.calls = job.calls /\ job'.ticks = job.ticks) ]_vars
  /\ [](\A k \in {"callback", "onTick", "onComplete"} :
          (job.pending[k] > 0 /\ outcome # "loop") => ENABLED Settle(k))

\* C27 witness: an invocation of the action has run to completion while the
\* job was stopped, another is still in flight, and the occurrence the job
\* had cached has come due without a firing.
C27_Witness ==
  /\ op = "settle" /\ getStatus(job) = "stopped" /\ job.completes = 0
  /\ job.settled > 0 /\ job.pending.callback > 0
  /\ job.timers = {}
  /\ job.next # NullDate /\ ~timeLeq(now, job.next)

\* C28: an invocation of the action that is in flight does not hold up the
\* timer: a run of the periodic check made while one is, at which the cached
\* occurrence is due, fires and starts another invocation of the action
\* beside it, and the job keeps its timer.
C28_PendingDoesNotBlock ==
  [][ (job.pending.callback > 0 /\ timeLeq(job.next, now) /\ now' = now /\ Tick) =>
        /\ job'.calls = job.calls + 1
        /\ job'.pending.callback = job.pending.callback + 1
        /\ job'.timers = job.timers /\ job'.timers # {} ]_vars

\* C28 witness: a check has just fired while earlier invocations of the action
\* were in flight: two of them are now.
C28_Witness ==
  /\ op = "tick" /\ job.firing # <<>> /\ isRunning(job)
  /\ job.pending.callback >= 2

\* C29: within one firing the on-fire callback is invoked only after the
\* promise of the action has settled: a run of the periodic check that has
\* invoked the on-fire callback leaves no invocation of the action in flight
\* that it started itself.
C29_OnTickAfterActionSettled ==
  [][ (job'.ticks # job.ticks /\ Tick) =>
        job'.pending.callback = job.pending.callback ]_vars

(***************************************************************************)
(* Claims about the termination of parse, checked under SpecParser.        *)
(***************************************************************************)

\* C30: parse terminates on every expression, whatever the step S of a V/S,
\* */S or A-B/S field, S = 0 and a non-numeric S included: the call returns
\* its six arrays or throws, and never stays in one of its loops.
C30_ParseTerminates ==
  call.fn = "parse" => call.err # "loop"

(***************************************************************************)
(* Claims about missed occurrences, checked under Spec.                    *)
(***************************************************************************)

\* C31: the action is invoked by runs of the periodic check only, once at most
\* by each, so that it has never been invoked more often than the check has
\* run; and a run that has fired, however long after the occurrence it had
\* cached, caches the first occurrence after the current time: the
\* occurrences passed in between are not fired for, and a further run at the
\* same instant does not fire.
C31_MissedOccurrencesSkipped ==
  [][ /\ job'.calls # job.calls => (job'.calls = job.calls + 1 /\ Tick)
      /\ (job'.calls # job.calls /\ outcome' = "none") =>
           /\ ~timeLeq(job'.next, now)
           /\ job'.next = getNext(job.cron, now).date
           /\ handler(job', now).job.calls = job'.calls ]_vars

\* C31 witness: a job on every second, started by its constructor, whose only
\* check so far ran three seconds later, after three occurrences had passed:
\* the action has been invoked once and the fourth occurrence is cached.
C31_Witness ==
  /\ job.cron = "* * * * * *" /\ job.options.start /\ job.seq = 1
  /\ op = "tick" /\ outcome = "none" /\ job.firing # <<>>
  /\ now = addSeconds(T0, 3)
  /\ job.calls = 1
  /\ job.next = addSeconds(T0, 4)

(***************************************************************************)
(* Claims about progress, checked under SpecLive.                          *)
(***************************************************************************)

\* The last instant of the model's clock.
Horizon == addSeconds(T0, MaxNow)

\* The job is running with a timer and has cached an occurrence that the
\* model's clock reaches.
AwaitsOccurrence ==
  /\ isRunning(job) /\ job.timers # {}
  /\ job.next # NullDate /\ timeLeq(job.next, Horizon)

\* The occurrence the job awaits has come.
Due == AwaitsOccurrence /\ timeLeq(job.next, now)

\* C32: a job that has been started on an expression with matching instants,
\* and is not stopped or destroyed, invokes the action, and invokes it again
\* after every firing: whenever it is running with an occurrence cached, that
\* occurrence comes due unless the job is stopped first; an occurrence that
\* is due stays due until a check fires for it or the job is stopped or
\* destroyed; and it does not stay due for ever.  The firing caches the next
\* occurrence, for which the same holds.
C32_FiresAgainAndAgain ==
  /\ AwaitsOccurrence ~> (Due \/ ~isRunning(job))
  /\ Due ~> ~Due
  /\ [][ (Due /\ ~Due') =>
           \/ job'.calls = job.calls + 1 /\ op' = "tick"
           \/ ~isRunning(job') ]_vars

\* C32 witness: a job started by its constructor and never stopped since has
\* fired three times, and has cached the next occurrence.
C32_Witness ==
  /\ job.options.start /\ job.seq = 1 /\ isRunning(job) /\ job.completes = 0
  /\ job.calls = 3
  /\ job.next # NullDate /\ ~timeLeq(job.next, now)

\* C33: an action that calls stop() on its own job does so before the handler
\* goes on: that firing still invokes the on-fire callback (when given) and
\* caches the next occurrence after the current time, and leaves the job
\* stopped with no active timer; such a job fires only while it is running
\* and has no timer whose handler could run while it is not, so no firing
\* follows until it is started again.  An action that calls
\* stop() and then start() leaves the job running with exactly one active
\* timer, a new one, which is the one the job holds.
C33_ActionStopsItsJob ==
  /\ [][ (job.options.does = "stops" /\ job'.calls # job.calls) =>
            /\ isRunning(job) /\ job.timers # {} /\ op' = "tick"
            /\ job'.calls = job.calls + 1
            /\ job'.firing = <<"callback">> \o
                              (IF job.options.onTick THEN <<"onTick">> ELSE <<>>)
            /\ job'.ticks = job.ticks + (IF job.options.onTick THEN 1 ELSE 0)
            /\ job'.next = getNext(job.cron, now).date
            /\ ~timeLeq(job'.next, now)
            /\ job'.status = "stopped"
            /\ job'.timers = {} ]_vars
  /\ []((job.options.does = "stops" /\ ~isRunning(job)) => job.timers = {})
  /\ [][ (job.options.does = "restarts" /\ job'.calls # job.calls) =>
            /\ op' = "tick"
            /\ job'.calls = job.calls + 1
            /\ job'.ticks = job.ticks + (IF job.options.onTick THEN 1 ELSE 0)
            /\ job'.next = getNext(job.cron, now).date
            /\ job'.status = "running"
            /\ Cardinality(job'.timers) = 1
            /\ job'.timers = {job'.interval}
            /\ job'.timers \cap job.timers = {} ]_vars

\* C33 witness: a job with an on-fire callback that its action has stopped:
\* it fired once, invoked both callbacks, cached a later occurrence, and is
\* stopped with no timer left, while the clock has moved on past that
\* occurrence.
C33_Witness ==
  /\ job.options.does = "stops" /\ job.options.onTick
  /\ op = "tick" /\ outcome = "none"
  /\ job.calls = 1 /\ job.ticks = 1 /\ job.firing = <<"callback", "onTick">>
  /\ job.status = "stopped" /\ job.timers = {}
  /\ job.next # NullDate /\ timeLeq(job.next, now)

====
